---- MODULE Spec2Model ----
(***************************************************************************)
(* Model of user-log (src/main.go, lines 1-358): a bot that mirrors the    *)
(* members of one guild in memory (knownMemberState) and in a sqlite table *)
(* (members), and posts a message for every join and leave it detects.     *)
(*                                                                         *)
(* Processes: the goroutine that runs syncMembersFromServer (main at       *)
(* start-up, then the ticker goroutine), and the goroutines discordgo      *)
(* starts for guildMemberAdd / guildMemberRemove.  All of them take        *)
(* knownMemberStateLock before touching the state.                         *)
(*                                                                         *)
(* Identities are the numbers 1..MaxId, ordered as the roster endpoint     *)
(* orders snowflakes; the empty cursor "" is 0.  Every roster entry        *)
(* carries a User (the nil-User skip of line 324 has no entry to act on).  *)
(* The roster a sync reads is arbitrary but stays the same from its first  *)
(* page to its last.  Live events are arbitrary too: they need not match   *)
(* the roster, may repeat and may be missing.                              *)
(*                                                                         *)
(* A step is one statement group of the source that reads or writes shared *)
(* state: the store write, the cache write and the message are separate    *)
(* steps, so a fatal exit (log.Fatalf) can fall between them.  The number  *)
(* of exits (fatal or by signal) in one behaviour is capped by MaxCrashes. *)
(*                                                                         *)
(* Three specifications: Spec is the bot after migrate has returned nil,   *)
(* with failures, signals and restarts; SpecLive is the bot with nothing   *)
(* failing and with fair scheduling; SpecMigrate is migrate alone, run     *)
(* again and again over one database file.                                 *)
(***************************************************************************)
EXTENDS Integers, Sequences, FiniteSets, TLC

\* ---------------------------------------------------------------- bounds
MaxId == 3
NumHandlers == 1
MaxCrashes == 1
NumMigrations == 3
MaxMigrateRuns == 3

\* ------------------------------------------------------------- constants
\* const limit = 1000 (main.go:316), scaled down so that pages fill up.
limit == 2

\* The goroutine running syncMembersFromServer (main, then the ticker).
Sync == 0

Ids == 1..MaxId
Handlers == 1..NumHandlers
Procs == {Sync} \cup Handlers

\* type discordUser struct { username, discriminator string }
\* Two values: both fields empty, and a name with an empty discriminator.
discordUser == { [username |-> "", discriminator |-> ""],
                 [username |-> "alice", discriminator |-> ""] }

\* The zero value of discordUser, what a Go map yields for a missing key.
ZeroUser == [username |-> "", discriminator |-> ""]

\* map[string]discordUser / the rows of the members table
MemberMaps == UNION { [S -> discordUser] : S \in SUBSET Ids }

NoFrame == [id |-> 0, user |-> ZeroUser]

VARIABLES
    running,                \* the process is up (FALSE after log.Fatalf)
    members,                \* the members table of the sqlite store
    knownMemberState,       \* the in-memory cache
    knownMemberStateEmpty,  \* the cold flag
    knownMemberStateLock,   \* the set of goroutines holding the mutex
    pc,                     \* where each goroutine stands
    frame,                  \* arguments/locals of the *Locked call in progress
    knownMemberStateClone,  \* syncMembersFromServer: the unseen set
    after,                  \* syncMembersFromServer: the cursor
    page,                   \* syncMembersFromServer: members, the last page fetched
    i,                      \* syncMembersFromServer: position in the page
    guild,                  \* the live roster the current sync reads
    sent,                   \* messages delivered in the current critical section
    processed,              \* identities the current sync's member loop has handled
    snapshot,               \* key set of the cache when the current sync locked
    startedEmpty,           \* this run loaded zero rows
    synced,                 \* a full sync has completed in this run
    owed,                   \* mutations persisted while not cold, message not delivered
    crashes,                \* exits of the process so far, fatal or by signal
    fetches,                \* GuildMembers calls of the current sync that returned
    exit,                   \* how the process ended last: "none" before any exit
    migrations,             \* the names in the migrations table (the ledger)
    ran,                    \* the migrations whose SQL db.Exec has run, in order
    migratePc,              \* where migrate stands: "off" when it is not running
    migrationFile,          \* migrate: position in migrationFiles
    migrateRuns             \* calls of migrate so far

vars == << running, members, knownMemberState, knownMemberStateEmpty,
           knownMemberStateLock, pc, frame, knownMemberStateClone, after,
           page, i, guild, sent, processed, snapshot, startedEmpty, synced,
           owed, crashes, fetches, exit, migrations, ran, migratePc,
           migrationFile, migrateRuns >>

syncLocals == << knownMemberStateClone, after, page, i, guild, processed, snapshot,
                fetches >>
history == << startedEmpty, synced, crashes, exit >>
migrateVars == << migrations, ran, migratePc, migrationFile, migrateRuns >>
mainVars == << running, members, knownMemberState, knownMemberStateEmpty,
               knownMemberStateLock, pc, frame, syncLocals, sent, history, owed >>

\* ------------------------------------------------------------ map helpers
Put(m, k, v) == [x \in (DOMAIN m) \cup {k} |-> IF x = k THEN v ELSE m[x]]
Del(m, k) == [x \in (DOMAIN m) \ {k} |-> m[x]]
Get(m, k) == IF k \in DOMAIN m THEN m[k] ELSE ZeroUser
Empty == [x \in {} |-> ZeroUser]

RECURSIVE Ascending(_)
Ascending(S) ==
    IF S = {} THEN << >>
    ELSE LET lo == CHOOSE x \in S : \A y \in S : x <= y
         IN << lo >> \o Ascending(S \ {lo})

\* s.GuildMembers(guildID, after, limit): the first n entries after cursor a.
GuildMembers(r, a, n) ==
    LET ids == { k \in DOMAIN r : k > a /\
                   Cardinality({ j \in DOMAIN r : j > a /\ j < k }) < n }
        ord == Ascending(ids)
    IN [ k \in 1..Len(ord) |-> [id |-> ord[k], user |-> r[ord[k]]] ]

\* Variant: || in place of && in lines 251 and 288.
MessageEither(kind, id, user) ==
    IF user.username = "" \/ user.discriminator = ""
    THEN [kind |-> kind, id |-> id, name |-> "", tag |-> "", long |-> FALSE]
    ELSE [kind |-> kind, id |-> id, name |-> user.username,
          tag |-> user.discriminator, long |-> TRUE]

\* fmt.Sprintf of the four templates (lines 251-255, 288-292)
Message(kind, id, user) ==
    IF user.username = "" /\ user.discriminator = ""
    THEN [kind |-> kind, id |-> id, name |-> "", tag |-> "", long |-> FALSE]
    ELSE [kind |-> kind, id |-> id, name |-> user.username,
          tag |-> user.discriminator, long |-> TRUE]

\* ---------------------------------------------------------------- migrate
\* The embedded migration files, named by their rank in strings.Compare order.
MigrationNames == 1..NumMigrations

\* Lines 166-175: the names, sorted.
migrationFiles == Ascending(MigrationNames)

\* main, lines 59-61, has got nil from migrate: every file is in the ledger
\* and has run once.  This is where the bot proper starts.
Migrated ==
    /\ migrations = MigrationNames
    /\ ran = migrationFiles
    /\ migratePc = "ok"
    /\ migrationFile = Len(migrationFiles) + 1
    /\ migrateRuns = 1

\* Lines 143-175: the process starts and calls migrate; the ledger table is
\* created if missing, the statements are prepared, the files listed.
migrateStart ==
    /\ migratePc = "off"
    /\ migrateRuns < MaxMigrateRuns
    /\ migrateRuns' = migrateRuns + 1
    /\ migrationFile' = 1
    /\ migratePc' = "check"
    /\ UNCHANGED << migrations, ran, mainVars >>

\* Lines 177-183: stmtCheck finds the name (continue) or finds no row.
migrateCheck ==
    /\ migratePc = "check"
    /\ migrationFile <= Len(migrationFiles)
    /\ IF migrationFiles[migrationFile] \in migrations
       THEN /\ migrationFile' = migrationFile + 1
            /\ migratePc' = migratePc
       ELSE /\ migrationFile' = migrationFile
            /\ migratePc' = "exec"
    /\ UNCHANGED << migrations, ran, migrateRuns, mainVars >>

\* Lines 184-187: stmtCheck fails with an error other than ErrNoRows.
migrateCheckFails ==
    /\ migratePc = "check"
    /\ migrationFile <= Len(migrationFiles)
    /\ migratePc' = "err"
    /\ UNCHANGED << migrations, ran, migrationFile, migrateRuns, mainVars >>

\* Lines 195-196: db.Exec(migrationSql) succeeds.
migrateExec ==
    /\ migratePc = "exec"
    /\ ran' = Append(ran, migrationFiles[migrationFile])
    /\ migratePc' = "store"
    /\ UNCHANGED << migrations, migrationFile, migrateRuns, mainVars >>

\* Lines 196-199: db.Exec(migrationSql) fails.
migrateExecFails ==
    /\ migratePc = "exec"
    /\ migratePc' = "err"
    /\ UNCHANGED << migrations, ran, migrationFile, migrateRuns, mainVars >>

\* Lines 200, 204: stmtStore.Exec succeeds, on to the next file.
migrateStore ==
    /\ migratePc = "store"
    /\ migrations' = migrations \cup { migrationFiles[migrationFile] }
    /\ migrationFile' = migrationFile + 1
    /\ migratePc' = "check"
    /\ UNCHANGED << ran, migrateRuns, mainVars >>

\* Lines 200-203: stmtStore.Exec fails; what db.Exec did stays done.
migrateStoreFails ==
    /\ migratePc = "store"
    /\ migratePc' = "err"
    /\ UNCHANGED << migrations, ran, migrationFile, migrateRuns, mainVars >>

\* Line 207: the loop is over, return nil.
migrateReturn ==
    /\ migratePc = "check"
    /\ migrationFile > Len(migrationFiles)
    /\ migratePc' = "ok"
    /\ UNCHANGED << migrations, ran, migrationFile, migrateRuns, mainVars >>

\* The process that called migrate ends (log.Fatalf of line 60 after an
\* error, or any later exit); the database file stays.
migrateExit ==
    /\ migratePc \in {"ok", "err"}
    /\ migratePc' = "off"
    /\ UNCHANGED << migrations, ran, migrationFile, migrateRuns, mainVars >>

\* --------------------------------------------------------------- start-up
\* main, lines 78-104 and 121-122: load the table, set the cold flag, start
\* the first sync.
loadedCount(rows) == Cardinality(DOMAIN rows)

StartPc == [p \in Procs |-> IF p = Sync THEN "sync" ELSE "idle"]

Init ==
    /\ running = TRUE
    /\ members \in MemberMaps
    /\ knownMemberState = members
    /\ knownMemberStateEmpty = (loadedCount(members) = 0)
    /\ knownMemberStateLock = {}
    /\ pc = StartPc
    /\ frame = [p \in Procs |-> NoFrame]
    /\ knownMemberStateClone = {}
    /\ after = 0
    /\ page = << >>
    /\ i = 1
    /\ guild = Empty
    /\ sent = << >>
    /\ processed = << >>
    /\ snapshot = {}
    /\ startedEmpty = (loadedCount(members) = 0)
    /\ synced = FALSE
    /\ owed = {}
    /\ crashes = 0
    /\ fetches = 0
    /\ exit = "none"
    /\ Migrated

\* ------------------------------------------------------------------ lock
\* Variant: RLock() in place of Lock(), which admits any number of holders.
CanLockShared == TRUE

\* sync.RWMutex.Lock blocks until nobody holds the mutex.
CanLock == knownMemberStateLock = {}

\* Variant: the deferred Unlock left out.
UnlockedNever(p) == knownMemberStateLock

\* knownMemberStateLock.Unlock()
Unlocked(p) == knownMemberStateLock \ {p}

\* Variants: the lookup's result ignored, either way.
ExistsNever(id) == FALSE
ExistsAlways(id) == TRUE

\* _, exists := knownMemberState[discordID]
Exists(id) == id \in DOMAIN knownMemberState

\* Variant: the cold flag not consulted.
NotifiesAlways == TRUE

\* if !knownMemberStateEmpty { ... ChannelMessageSend ... }
Notifies == ~knownMemberStateEmpty

\* Where a *Locked call returns to: the deferred Unlock of a handler, line
\* 339 of the member loop, or the head of the missed-leave loop.
Return(p, fn) ==
    IF p = Sync
    THEN IF fn = "rm" THEN "remove" ELSE "next"
    ELSE IF fn = "rm" THEN "memberRemoved.unlock" ELSE "memberAdded.unlock"

\* stmtAdd.Exec / stmtUpdate.Exec / stmtRemove.Exec on the members table
\* Variants: the INSERT, the UPDATE left out.
StoreInsertSkipped(id, user) == members
StoreUpdateSkipped(id, user) == members
StoreInsert(id, user) == Put(members, id, user)
StoreUpdate(id, user) == IF id \in DOMAIN members THEN Put(members, id, user) ELSE members
\* Variant: the DELETE left out.
StoreDeleteSkipped(id) == members
StoreDelete(id) == Del(members, id)

\* knownMemberState[discordID] = user / delete(knownMemberState, discordID)
CachePut(id, user) == Put(knownMemberState, id, user)
\* Variant: the delete of line 286 left out.
CacheDeleteSkipped(id) == knownMemberState
CacheDelete(id) == Del(knownMemberState, id)

Goto(p, label) == pc' = [pc EXCEPT ![p] = label]

\* ------------------------------------------------------------ live events
\* guildMemberAdd -> memberAdded: the handler goroutine reaches Lock().
guildMemberAdd(h, id, user) ==
    /\ running
    /\ pc[h] = "idle"
    /\ Goto(h, "memberAdded")
    /\ frame' = [frame EXCEPT ![h] = [id |-> id, user |-> user]]
    /\ UNCHANGED << running, members, knownMemberState, knownMemberStateEmpty,
                    knownMemberStateLock, syncLocals, sent, history, owed >>
    /\ UNCHANGED migrateVars

\* guildMemberRemove -> memberRemoved: the handler goroutine reaches Lock().
guildMemberRemove(h, id) ==
    /\ running
    /\ pc[h] = "idle"
    /\ Goto(h, "memberRemoved")
    /\ frame' = [frame EXCEPT ![h] = [id |-> id, user |-> ZeroUser]]
    /\ UNCHANGED << running, members, knownMemberState, knownMemberStateEmpty,
                    knownMemberStateLock, syncLocals, sent, history, owed >>
    /\ UNCHANGED migrateVars

\* memberAdded: Lock() succeeds, memberAddedLocked is entered.
memberAdded(h) ==
    /\ running
    /\ pc[h] = "memberAdded"
    /\ CanLock
    /\ knownMemberStateLock' = knownMemberStateLock \cup {h}
    /\ Goto(h, "add")
    /\ UNCHANGED << running, members, knownMemberState, knownMemberStateEmpty,
                    frame, syncLocals, sent, history, owed >>
    /\ UNCHANGED migrateVars

\* memberRemoved: Lock() succeeds, memberRemovedLocked is entered.
memberRemoved(h) ==
    /\ running
    /\ pc[h] = "memberRemoved"
    /\ CanLock
    /\ knownMemberStateLock' = knownMemberStateLock \cup {h}
    /\ Goto(h, "rm")
    /\ UNCHANGED << running, members, knownMemberState, knownMemberStateEmpty,
                    frame, syncLocals, sent, history, owed >>
    /\ UNCHANGED migrateVars

\* The deferred Unlock of memberAdded / memberRemoved.
Unlock(h) ==
    /\ running
    /\ pc[h] \in {"memberAdded.unlock", "memberRemoved.unlock"}
    /\ knownMemberStateLock' = Unlocked(h)
    /\ Goto(h, "idle")
    /\ frame' = [frame EXCEPT ![h] = NoFrame]
    /\ sent' = << >>
    /\ UNCHANGED << running, members, knownMemberState, knownMemberStateEmpty,
                    syncLocals, history, owed >>
    /\ UNCHANGED migrateVars

\* ------------------------------------------------------ memberAddedLocked
\* Lines 241-248: the exists check and stmtAdd.Exec, which succeeds.
memberAddedLockedExec(p) ==
    /\ running
    /\ pc[p] = "add"
    /\ IF Exists(frame[p].id)
       THEN /\ Goto(p, Return(p, "add"))
            /\ UNCHANGED << members, owed >>
       ELSE /\ members' = StoreInsert(frame[p].id, frame[p].user)
            /\ owed' = IF Notifies THEN owed \cup { << "joined", frame[p].id >> }
                       ELSE owed
            /\ Goto(p, "add.put")
    /\ UNCHANGED << running, knownMemberState, knownMemberStateEmpty,
                    knownMemberStateLock, frame, syncLocals, sent, history >>
    /\ UNCHANGED migrateVars

\* Line 249: knownMemberState[discordID] = user
memberAddedLockedPut(p) ==
    /\ running
    /\ pc[p] = "add.put"
    /\ knownMemberState' = CachePut(frame[p].id, frame[p].user)
    /\ Goto(p, "add.notify")
    /\ UNCHANGED << running, members, knownMemberStateEmpty,
                    knownMemberStateLock, frame, syncLocals, sent, history, owed >>
    /\ UNCHANGED migrateVars

\* Lines 250-260: the message, delivered, unless the cold flag squelches it.
memberAddedLockedNotify(p) ==
    /\ running
    /\ pc[p] = "add.notify"
    /\ IF Notifies
       THEN /\ sent' = Append(sent, Message("joined", frame[p].id, frame[p].user))
            /\ owed' = owed \ { << "joined", frame[p].id >> }
       ELSE UNCHANGED << sent, owed >>
    /\ Goto(p, Return(p, "add"))
    /\ UNCHANGED << running, members, knownMemberState, knownMemberStateEmpty,
                    knownMemberStateLock, frame, syncLocals, history >>
    /\ UNCHANGED migrateVars

\* ---------------------------------------------------- memberUpdatedLocked
\* Lines 264-267: stmtUpdate.Exec, which succeeds.
memberUpdatedLockedExec(p) ==
    /\ running
    /\ pc[p] = "upd"
    /\ members' = StoreUpdate(frame[p].id, frame[p].user)
    /\ Goto(p, "upd.put")
    /\ UNCHANGED << running, knownMemberState, knownMemberStateEmpty,
                    knownMemberStateLock, frame, syncLocals, sent, history, owed >>
    /\ UNCHANGED migrateVars

\* Line 268: knownMemberState[discordID] = user
memberUpdatedLockedPut(p) ==
    /\ running
    /\ pc[p] = "upd.put"
    /\ knownMemberState' = CachePut(frame[p].id, frame[p].user)
    /\ Goto(p, Return(p, "upd"))
    /\ UNCHANGED << running, members, knownMemberStateEmpty,
                    knownMemberStateLock, frame, syncLocals, sent, history, owed >>
    /\ UNCHANGED migrateVars

\* ---------------------------------------------------- memberRemovedLocked
\* Lines 278-285: the lookup (which keeps the record) and stmtRemove.Exec,
\* which succeeds.
memberRemovedLockedExec(p) ==
    /\ running
    /\ pc[p] = "rm"
    /\ IF ~Exists(frame[p].id)
       THEN /\ Goto(p, Return(p, "rm"))
            /\ UNCHANGED << members, owed, frame >>
       ELSE /\ frame' = [frame EXCEPT ![p].user = Get(knownMemberState, frame[p].id)]
            /\ members' = StoreDelete(frame[p].id)
            /\ owed' = IF Notifies THEN owed \cup { << "left", frame[p].id >> }
                       ELSE owed
            /\ Goto(p, "rm.delete")
    /\ UNCHANGED << running, knownMemberState, knownMemberStateEmpty,
                    knownMemberStateLock, syncLocals, sent, history >>
    /\ UNCHANGED migrateVars

\* Line 286: delete(knownMemberState, discordID)
memberRemovedLockedDelete(p) ==
    /\ running
    /\ pc[p] = "rm.delete"
    /\ knownMemberState' = CacheDelete(frame[p].id)
    /\ Goto(p, "rm.notify")
    /\ UNCHANGED << running, members, knownMemberStateEmpty,
                    knownMemberStateLock, frame, syncLocals, sent, history, owed >>
    /\ UNCHANGED migrateVars

\* Lines 287-297: the message, delivered, unless the cold flag squelches it.
memberRemovedLockedNotify(p) ==
    /\ running
    /\ pc[p] = "rm.notify"
    /\ IF Notifies
       THEN /\ sent' = Append(sent, Message("left", frame[p].id, frame[p].user))
            /\ owed' = owed \ { << "left", frame[p].id >> }
       ELSE UNCHANGED << sent, owed >>
    /\ Goto(p, Return(p, "rm"))
    /\ UNCHANGED << running, members, knownMemberState, knownMemberStateEmpty,
                    knownMemberStateLock, frame, syncLocals, history >>
    /\ UNCHANGED migrateVars

\* -------------------------------------------------- syncMembersFromServer
\* Lines 306-309: the copy of the cache's keys.
Clone(state) == DOMAIN state

\* Variant: && in place of || in line 333.
DiffersBoth(user, memberUser) ==
    /\ user.username # memberUser.username
    /\ user.discriminator # memberUser.discriminator

\* Line 333: the roster's fields differ from the cached ones.
Differs(user, memberUser) ==
    \/ user.username # memberUser.username
    \/ user.discriminator # memberUser.discriminator

\* Variant: <= in place of < in line 343.
LastPageInclusive(ms) == Len(ms) <= limit

\* Line 343: less than limit returned - we're done!
LastPage(ms) == Len(ms) < limit

\* Variant: the cursor taken from the first entry of the page.
NextAfterFirst(ms) == ms[1].id

\* Line 348: after = members[len(members)-1].User.ID
NextAfter(ms) == ms[Len(ms)].id

\* Variant: line 339 left out.
SeenKept(clone, id) == clone

\* Line 339: delete(knownMemberStateClone, member.User.ID)
Seen(clone, id) == clone \ {id}

\* The ticker goroutine (lines 124-130) calls syncMembersFromServer again.
syncTick ==
    /\ running
    /\ pc[Sync] = "idle"
    /\ Goto(Sync, "sync")
    /\ UNCHANGED << running, members, knownMemberState, knownMemberStateEmpty,
                    knownMemberStateLock, frame, syncLocals, sent, history, owed >>
    /\ UNCHANGED migrateVars

\* Lines 301-315: Lock() succeeds, the clone is taken, the cursor is "".
\* The roster this sync will read is whatever the guild holds by now.
syncLock ==
    /\ running
    /\ pc[Sync] = "sync"
    /\ CanLock
    /\ knownMemberStateLock' = knownMemberStateLock \cup {Sync}
    /\ knownMemberStateClone' = Clone(knownMemberState)
    /\ snapshot' = DOMAIN knownMemberState
    /\ after' = 0
    /\ page' = << >>
    /\ i' = 1
    /\ guild' \in MemberMaps
    /\ processed' = << >>
    /\ fetches' = 0
    /\ sent' = << >>
    /\ Goto(Sync, "fetch")
    /\ UNCHANGED << running, members, knownMemberState, knownMemberStateEmpty,
                    frame, history, owed >>
    /\ UNCHANGED migrateVars

\* Line 318: one page is fetched.
syncFetch ==
    /\ running
    /\ pc[Sync] = "fetch"
    /\ page' = GuildMembers(guild, after, limit)
    /\ fetches' = fetches + 1
    /\ i' = 1
    /\ Goto(Sync, "member")
    /\ UNCHANGED << running, members, knownMemberState, knownMemberStateEmpty,
                    knownMemberStateLock, frame, knownMemberStateClone, after,
                    guild, processed, snapshot, sent, history, owed >>
    /\ UNCHANGED migrateVars

\* Lines 323-338: the next member of the page is looked up and dispatched.
syncMember ==
    /\ running
    /\ pc[Sync] = "member"
    /\ i <= Len(page)
    /\ processed' = Append(processed, page[i].id)
    /\ frame' = [frame EXCEPT ![Sync] = [id |-> page[i].id, user |-> page[i].user]]
    /\ IF Exists(page[i].id)
       THEN IF Differs(Get(knownMemberState, page[i].id), page[i].user)
            THEN Goto(Sync, "upd")
            ELSE Goto(Sync, "next")
       ELSE Goto(Sync, "add")
    /\ UNCHANGED << running, members, knownMemberState, knownMemberStateEmpty,
                    knownMemberStateLock, knownMemberStateClone, after, page, i,
                    guild, snapshot, fetches, sent, history, owed >>
    /\ UNCHANGED migrateVars

\* Line 339: delete(knownMemberStateClone, member.User.ID)
syncSeen ==
    /\ running
    /\ pc[Sync] = "next"
    /\ knownMemberStateClone' = Seen(knownMemberStateClone, frame[Sync].id)
    /\ i' = i + 1
    /\ Goto(Sync, "member")
    /\ UNCHANGED << running, members, knownMemberState, knownMemberStateEmpty,
                    knownMemberStateLock, frame, after, page, guild, processed,
                    snapshot, fetches, sent, history, owed >>
    /\ UNCHANGED migrateVars

\* Lines 342-348: the page is used up: stop, or move the cursor and go on.
syncPageEnd ==
    /\ running
    /\ pc[Sync] = "member"
    /\ i > Len(page)
    /\ IF LastPage(page)
       THEN /\ Goto(Sync, "remove")
            /\ after' = after
       ELSE /\ Goto(Sync, "fetch")
            /\ after' = NextAfter(page)
    /\ UNCHANGED << running, members, knownMemberState, knownMemberStateEmpty,
                    knownMemberStateLock, frame, knownMemberStateClone, page, i,
                    guild, processed, snapshot, fetches, sent, history, owed >>
    /\ UNCHANGED migrateVars

\* Lines 352-353: the range over the clone hands out one more key, in any
\* order; knownMemberStateClone keeps the keys not yet ranged over.
syncRemove ==
    /\ running
    /\ pc[Sync] = "remove"
    /\ knownMemberStateClone # {}
    /\ \E id \in knownMemberStateClone :
         /\ knownMemberStateClone' = knownMemberStateClone \ {id}
         /\ frame' = [frame EXCEPT ![Sync] = [id |-> id, user |-> ZeroUser]]
    /\ Goto(Sync, "rm")
    /\ UNCHANGED << running, members, knownMemberState, knownMemberStateEmpty,
                    knownMemberStateLock, after, page, i, guild, processed,
                    snapshot, fetches, sent, history, owed >>
    /\ UNCHANGED migrateVars

\* Variant: the flag cleared only when the roster had somebody.
ColdAfterSyncIfAny == knownMemberStateEmpty /\ DOMAIN guild = {}

\* Line 357: knownMemberStateEmpty = false
ColdAfterSync == FALSE

\* Lines 356-357: the range is over; knownMemberStateEmpty = false.
syncFinish ==
    /\ running
    /\ pc[Sync] = "remove"
    /\ knownMemberStateClone = {}
    /\ knownMemberStateEmpty' = ColdAfterSync
    /\ synced' = TRUE
    /\ Goto(Sync, "done")
    /\ UNCHANGED << running, members, knownMemberState, knownMemberStateLock,
                    frame, syncLocals, sent, startedEmpty, crashes, exit, owed >>
    /\ UNCHANGED migrateVars

\* Line 302: the deferred Unlock; the sync's locals go out of scope.
syncUnlock ==
    /\ running
    /\ pc[Sync] = "done"
    /\ knownMemberStateLock' = Unlocked(Sync)
    /\ Goto(Sync, "idle")
    /\ frame' = [frame EXCEPT ![Sync] = NoFrame]
    /\ knownMemberStateClone' = {}
    /\ snapshot' = {}
    /\ after' = 0
    /\ page' = << >>
    /\ i' = 1
    /\ guild' = Empty
    /\ processed' = << >>
    /\ fetches' = 0
    /\ sent' = << >>
    /\ UNCHANGED << running, members, knownMemberState, knownMemberStateEmpty,
                    history, owed >>
    /\ UNCHANGED migrateVars

\* ------------------------------------------------------- fatal exits
\* log.Fatalf: the process stops where it stands.  Nothing more is written;
\* the members table survives, everything else is lost at the restart.
Fatal(at) ==
    /\ crashes < MaxCrashes
    /\ running' = FALSE
    /\ crashes' = crashes + 1
    /\ exit' = at
    /\ UNCHANGED << members, knownMemberState, knownMemberStateEmpty,
                    knownMemberStateLock, pc, frame, syncLocals, sent,
                    startedEmpty, synced, owed >>
    /\ UNCHANGED migrateVars

\* Lines 246-247, 265-266, 283-284: the Exec of a store write fails.
ExecFails(p) ==
    /\ running
    /\ \/ pc[p] = "add" /\ ~Exists(frame[p].id)
       \/ pc[p] = "upd"
       \/ pc[p] = "rm" /\ Exists(frame[p].id)
    /\ Fatal("exec")

\* Lines 256-257, 293-294: ChannelMessageSend fails, nothing is delivered.
SendFails(p) ==
    /\ running
    /\ pc[p] \in {"add.notify", "rm.notify"}
    /\ Notifies
    /\ Fatal("send")

\* Lines 319-320: GuildMembers fails.
FetchFails ==
    /\ running
    /\ pc[Sync] = "fetch"
    /\ Fatal("fetch")

\* Lines 133-137: the signal arrives and main returns (before signal.Notify,
\* line 134, the signal ends the process by default).  A Go program ends when
\* main returns: no goroutine is waited for and the lock is not taken.
Shutdown ==
    /\ running
    /\ crashes < MaxCrashes
    /\ running' = FALSE
    /\ crashes' = crashes + 1
    /\ exit' = "signal"
    /\ UNCHANGED << members, knownMemberState, knownMemberStateEmpty,
                    knownMemberStateLock, pc, frame, syncLocals, sent,
                    startedEmpty, synced, owed >>
    /\ UNCHANGED migrateVars

\* The process is started again: main, lines 78-104 and 121-122.
Restart ==
    /\ ~running
    /\ running' = TRUE
    /\ knownMemberState' = members
    /\ knownMemberStateEmpty' = (loadedCount(members) = 0)
    /\ startedEmpty' = (loadedCount(members) = 0)
    /\ synced' = FALSE
    /\ knownMemberStateLock' = {}
    /\ pc' = StartPc
    /\ frame' = [p \in Procs |-> NoFrame]
    /\ knownMemberStateClone' = {}
    /\ snapshot' = {}
    /\ after' = 0
    /\ page' = << >>
    /\ i' = 1
    /\ guild' = Empty
    /\ processed' = << >>
    /\ fetches' = 0
    /\ sent' = << >>
    /\ UNCHANGED << members, crashes, exit, owed >>
    /\ UNCHANGED migrateVars

\* ------------------------------------------------------------------ spec
Next ==
    \/ \E h \in Handlers, id \in Ids, user \in discordUser : guildMemberAdd(h, id, user)
    \/ \E h \in Handlers, id \in Ids : guildMemberRemove(h, id)
    \/ \E h \in Handlers : memberAdded(h)
    \/ \E h \in Handlers : memberRemoved(h)
    \/ \E h \in Handlers : Unlock(h)
    \/ \E p \in Procs : memberAddedLockedExec(p)
    \/ \E p \in Procs : memberAddedLockedPut(p)
    \/ \E p \in Procs : memberAddedLockedNotify(p)
    \/ \E p \in Procs : memberUpdatedLockedExec(p)
    \/ \E p \in Procs : memberUpdatedLockedPut(p)
    \/ \E p \in Procs : memberRemovedLockedExec(p)
    \/ \E p \in Procs : memberRemovedLockedDelete(p)
    \/ \E p \in Procs : memberRemovedLockedNotify(p)
    \/ syncTick
    \/ syncLock
    \/ syncFetch
    \/ syncMember
    \/ syncSeen
    \/ syncPageEnd
    \/ syncRemove
    \/ syncFinish
    \/ syncUnlock
    \/ \E p \in Procs : ExecFails(p)
    \/ \E p \in Procs : SendFails(p)
    \/ FetchFails
    \/ Shutdown
    \/ Restart

Spec == Init /\ [][Next]_vars

\* migrate on its own, from a new database file, over several process starts.
InitMigrate ==
    /\ migrations = {}
    /\ ran = << >>
    /\ migratePc = "off"
    /\ migrationFile = 1
    /\ migrateRuns = 0
    /\ running = FALSE
    /\ members = Empty
    /\ knownMemberState = Empty
    /\ knownMemberStateEmpty = FALSE
    /\ knownMemberStateLock = {}
    /\ pc = StartPc
    /\ frame = [p \in Procs |-> NoFrame]
    /\ knownMemberStateClone = {}
    /\ after = 0
    /\ page = << >>
    /\ i = 1
    /\ guild = Empty
    /\ sent = << >>
    /\ processed = << >>
    /\ snapshot = {}
    /\ startedEmpty = FALSE
    /\ synced = FALSE
    /\ owed = {}
    /\ crashes = 0
    /\ fetches = 0
    /\ exit = "none"

NextMigrate ==
    \/ migrateStart
    \/ migrateCheck
    \/ migrateCheckFails
    \/ migrateExec
    \/ migrateExecFails
    \/ migrateStore
    \/ migrateStoreFails
    \/ migrateReturn
    \/ migrateExit

SpecMigrate == InitMigrate /\ [][NextMigrate]_vars

\* The bot while nothing fails and no signal arrives.
NextLive ==
    \/ \E h \in Handlers, id \in Ids, user \in discordUser : guildMemberAdd(h, id, user)
    \/ \E h \in Handlers, id \in Ids : guildMemberRemove(h, id)
    \/ \E h \in Handlers : memberAdded(h)
    \/ \E h \in Handlers : memberRemoved(h)
    \/ \E h \in Handlers : Unlock(h)
    \/ \E p \in Procs : memberAddedLockedExec(p)
    \/ \E p \in Procs : memberAddedLockedPut(p)
    \/ \E p \in Procs : memberAddedLockedNotify(p)
    \/ \E p \in Procs : memberUpdatedLockedExec(p)
    \/ \E p \in Procs : memberUpdatedLockedPut(p)
    \/ \E p \in Procs : memberRemovedLockedExec(p)
    \/ \E p \in Procs : memberRemovedLockedDelete(p)
    \/ \E p \in Procs : memberRemovedLockedNotify(p)
    \/ syncTick
    \/ syncLock
    \/ syncFetch
    \/ syncMember
    \/ syncSeen
    \/ syncPageEnd
    \/ syncRemove
    \/ syncFinish
    \/ syncUnlock

\* The statements a goroutine runs between Lock() and the end of Unlock().
Locked(p) ==
    \/ memberAddedLockedExec(p)
    \/ memberAddedLockedPut(p)
    \/ memberAddedLockedNotify(p)
    \/ memberUpdatedLockedExec(p)
    \/ memberUpdatedLockedPut(p)
    \/ memberRemovedLockedExec(p)
    \/ memberRemovedLockedDelete(p)
    \/ memberRemovedLockedNotify(p)

\* A sync that holds the lock goes on: every fetch returns, every statement
\* is eventually run.
SyncStep ==
    \/ Locked(Sync)
    \/ syncFetch
    \/ syncMember
    \/ syncSeen
    \/ syncPageEnd
    \/ syncRemove
    \/ syncFinish
    \/ syncUnlock

\* A handler goes on, and one that waits in Lock() gets the lock if the lock
\* is free again and again.
HandlerStep(h) ==
    \/ memberAdded(h)
    \/ memberRemoved(h)
    \/ Locked(h)
    \/ Unlock(h)

SpecLive ==
    /\ Init
    /\ [][NextLive]_vars
    /\ WF_vars(SyncStep)
    /\ \A h \in Handlers : SF_vars(HandlerStep(h))

\* ================================================================ claims
\* A goroutine is inside its critical section: past Lock(), before Unlock().
InCS(p) == pc[p] \notin {"idle", "memberAdded", "memberRemoved", "sync"}

\* Messages of one kind about one identity delivered in this critical section.
Delivered(kind, id) ==
    Cardinality({ k \in 1..Len(sent) : sent[k].kind = kind /\ sent[k].id = id })

\* The set of identities in a sequence of identities.
Range(seq) == { seq[k] : k \in 1..Len(seq) }

\* C1 (convergence): whenever a full sync has completed (it stands at its
\* deferred Unlock), whatever live events and earlier syncs came before, the
\* cache's key set is exactly the identity set of the roster it read.
C1_Convergence ==
    pc[Sync] = "done" => DOMAIN knownMemberState = DOMAIN guild

\* A sync completes that had to both add and remove, with a live event waiting.
C1_Witness ==
    /\ pc[Sync] = "done"
    /\ snapshot \ DOMAIN guild # {}
    /\ DOMAIN guild \ snapshot # {}
    /\ \E h \in Handlers : pc[h] = "memberAdded"

\* C2 (cold suppression): in a run that loaded zero rows, nothing is delivered
\* before the first full sync completes; once it has completed, every add or
\* remove whose notify step returns has delivered its message.
C2_ColdSuppression ==
    /\ [](startedEmpty /\ ~synced => sent = << >>)
    /\ [][ \A p \in Procs :
             ( /\ startedEmpty /\ synced
               /\ pc[p] \in {"add.notify", "rm.notify"}
               /\ pc'[p] # pc[p]
               /\ running /\ running' )
             => sent' = Append(sent,
                   Message(IF pc[p] = "add.notify" THEN "joined" ELSE "left",
                           frame[p].id, frame[p].user)) ]_vars

\* The first full sync of an empty store has added every identity of a full
\* roster and delivered nothing.
C2_Witness ==
    /\ startedEmpty /\ ~synced
    /\ pc[Sync] = "remove"
    /\ Cardinality(DOMAIN guild) = MaxId
    /\ DOMAIN members = DOMAIN guild
    /\ sent = << >>

\* C3 (one notification per persisted change, across restarts), as claimed:
\* once the process is up, has completed a full sync and every goroutine is
\* idle, no add or remove persisted while not cold lacks its message.
C3_NoneLost ==
    (running /\ synced /\ exit # "signal" /\ \A p \in Procs : pc[p] = "idle")
        => owed = {}

\* C4 (cache/store agreement): whenever the process is up and nobody holds the
\* lock, the cache's key set equals the key set of the members table.
C4_CacheStoreAgree ==
    (running /\ knownMemberStateLock = {})
        => DOMAIN knownMemberState = DOMAIN members

\* Quiescent after a first sync that filled an empty store.
C4_Witness ==
    /\ running /\ knownMemberStateLock = {}
    /\ startedEmpty /\ synced
    /\ Cardinality(DOMAIN members) = 2
    /\ \A p \in Procs : pc[p] = "idle"

\* C5 (mutual exclusion): at most one goroutine is inside its critical section,
\* and from the sync's snapshot to its Unlock no handler moves except to arrive
\* at Lock().
C5_MutualExclusion ==
    /\ [](\A p, q \in Procs : (InCS(p) /\ InCS(q)) => p = q)
    /\ [][ (InCS(Sync) /\ running /\ running')
             => \A h \in Handlers :
                  \/ pc'[h] = pc[h]
                  \/ pc[h] = "idle" /\ pc'[h] \in {"memberAdded", "memberRemoved"} ]_vars

\* The sync is between two page fetches while a live event waits for the lock.
C5_Witness ==
    /\ pc[Sync] = "fetch"
    /\ after > 0
    /\ \E h \in Handlers : pc[h] \in {"memberAdded", "memberRemoved"}

\* C6 (Joined idempotence): after a Joined has been applied the identity has
\* its one record in store and cache and at most one message was delivered;
\* applying Joined to an identity already cached changes neither store nor
\* cache, delivers nothing and returns at once.
C6_JoinedIdempotent ==
    /\ [](\A h \in Handlers : pc[h] = "memberAdded.unlock" =>
            /\ frame[h].id \in DOMAIN members
            /\ frame[h].id \in DOMAIN knownMemberState
            /\ Len(sent) <= 1)
    /\ [][ \A h \in Handlers :
             ( /\ pc[h] = "add"
               /\ frame[h].id \in DOMAIN knownMemberState
               /\ pc'[h] # pc[h]
               /\ running /\ running' )
             => /\ pc'[h] = "memberAdded.unlock"
                /\ members' = members
                /\ knownMemberState' = knownMemberState
                /\ sent' = sent ]_vars

\* A Joined for a cached identity, carrying other fields, has returned while
\* notifications were on, and nothing was delivered.
C6_Witness ==
    \E h \in Handlers :
        /\ pc[h] = "memberAdded.unlock"
        /\ ~knownMemberStateEmpty
        /\ sent = << >>
        /\ frame[h].user # Get(knownMemberState, frame[h].id)

\* C7 (Left on an unknown identity): memberRemovedLocked for an identity not
\* in the cache returns at once with store, cache, cold flag and delivered
\* messages unchanged.
C7_LeftUnknownNoop ==
    [][ \A h \in Handlers :
          ( /\ running
            /\ pc[h] = "rm"
            /\ frame[h].id \notin DOMAIN knownMemberState
            /\ pc'[h] # pc[h] )
          => /\ pc'[h] = "memberRemoved.unlock"
             /\ running'
             /\ members' = members
             /\ knownMemberState' = knownMemberState
             /\ knownMemberStateEmpty' = knownMemberStateEmpty
             /\ sent' = sent ]_vars

\* A Left has returned while notifications were on and nothing was delivered.
C7_Witness ==
    \E h \in Handlers :
        /\ pc[h] = "memberRemoved.unlock"
        /\ ~knownMemberStateEmpty
        /\ frame[h].id \notin DOMAIN knownMemberState
        /\ sent = << >>

\* The missed-leave loop of the current sync has ranged over the whole clone.
Swept == pc[Sync] = "remove" /\ knownMemberStateClone = {}

\* C8 (missed-leave detection): when the missed-leave loop is over, every
\* identity of the snapshot that the roster lacks is gone from store and cache
\* and has exactly one "left" message if notifications are on (none if cold),
\* and every identity of the snapshot that the roster has is still in store and
\* cache with no "left" message.
C8_MissedLeave ==
    Swept =>
        /\ \A id \in snapshot \ DOMAIN guild :
             /\ id \notin DOMAIN members
             /\ id \notin DOMAIN knownMemberState
             /\ Delivered("left", id) = IF knownMemberStateEmpty THEN 0 ELSE 1
        /\ \A id \in snapshot \cap DOMAIN guild :
             /\ id \in DOMAIN members
             /\ id \in DOMAIN knownMemberState
             /\ Delivered("left", id) = 0

\* A sweep that removed somebody and kept somebody, with notifications on.
C8_Witness ==
    /\ Swept
    /\ ~knownMemberStateEmpty
    /\ snapshot \ DOMAIN guild # {}
    /\ snapshot \cap DOMAIN guild # {}

\* C9 (silent field update): while the sync updates a member that was already
\* cached, and when it has dealt with one, the identity is in the cache and no
\* message about it has been delivered; when it has dealt with it, the stored
\* and the cached record carry the roster's fields.
C9_SilentUpdate ==
    /\ pc[Sync] \in {"upd", "upd.put"} =>
         /\ frame[Sync].id \in snapshot
         /\ frame[Sync].id \in DOMAIN knownMemberState
         /\ Delivered("joined", frame[Sync].id) + Delivered("left", frame[Sync].id) = 0
    /\ (pc[Sync] = "next" /\ frame[Sync].id \in snapshot) =>
         /\ frame[Sync].id \in DOMAIN knownMemberState
         /\ frame[Sync].id \in DOMAIN members
         /\ knownMemberState[frame[Sync].id] = guild[frame[Sync].id]
         /\ members[frame[Sync].id] = guild[frame[Sync].id]
         /\ Delivered("joined", frame[Sync].id) + Delivered("left", frame[Sync].id) = 0

\* The store already holds the roster's fields, the cache still the old ones.
C9_Witness ==
    /\ pc[Sync] = "upd.put"
    /\ Get(members, frame[Sync].id) = frame[Sync].user
    /\ Get(knownMemberState, frame[Sync].id) # frame[Sync].user

\* C10 (pagination): when the page loop is over, the member loop has handled
\* every identity of the roster exactly once, each is in the cache, and at most
\* one "joined" message per identity was delivered.
C10_Pagination ==
    pc[Sync] = "remove" =>
        /\ Range(processed) = DOMAIN guild
        /\ Len(processed) = Cardinality(DOMAIN guild)
        /\ DOMAIN guild \subseteq DOMAIN knownMemberState
        /\ \A id \in Ids : Delivered("joined", id) <= 1

\* A roster of MaxId identities was consumed in more than one page.
C10_Witness ==
    /\ pc[Sync] = "remove"
    /\ Cardinality(DOMAIN guild) = MaxId
    /\ after > 0
    /\ Len(processed) = MaxId

\* The step in which a full sync clears the cold flag (line 357).
SyncEnds == pc[Sync] = "remove" /\ pc'[Sync] = "done"

\* C11 (cold flag lifecycle): whenever the process comes up the flag is true
\* exactly when the table holds no row; while the process runs the flag goes
\* from true to false only in the step that ends a full sync; that step leaves
\* it false whatever the roster was; and once false it stays false for the
\* rest of the run.
C11_ColdLifecycle ==
    /\ knownMemberStateEmpty = (DOMAIN members = {})
    /\ [][ (~running /\ running')
             => knownMemberStateEmpty' = (DOMAIN members' = {}) ]_vars
    /\ [][ (running /\ running' /\ knownMemberStateEmpty /\ ~knownMemberStateEmpty')
             => SyncEnds ]_vars
    /\ [][ SyncEnds => ~knownMemberStateEmpty' ]_vars
    /\ [][ (running /\ running' /\ ~knownMemberStateEmpty)
             => ~knownMemberStateEmpty' ]_vars

\* A cold run whose first sync read an empty roster: the flag is cleared and
\* the cache is empty.
C11_Witness ==
    /\ running
    /\ pc[Sync] = "done"
    /\ startedEmpty
    /\ DOMAIN guild = {}
    /\ DOMAIN knownMemberState = {}
    /\ ~knownMemberStateEmpty

\* C12 (crash recovery): in a run that follows an exit, when a full sync has
\* completed, the cache, the members table and the roster hold the same
\* identities.
C12_CrashRecovery ==
    (running /\ crashes > 0 /\ pc[Sync] = "done") =>
        /\ DOMAIN knownMemberState = DOMAIN members
        /\ DOMAIN members = DOMAIN guild

\* The earlier run ended between a store write and its message, and the sync
\* of the new run has completed over a roster that is not empty.
C12_Witness ==
    /\ running /\ crashes > 0
    /\ pc[Sync] = "done"
    /\ owed # {}
    /\ DOMAIN guild # {}

\* C13 (graceful shutdown), as claimed: when the process has ended on the
\* shutdown signal after its startup sync, no live-event handler and no
\* periodic sync was left inside its critical section with work still to do.
C13_HolderFinishes ==
    (~running /\ exit = "signal" /\ synced) =>
        \A p \in Procs :
            pc[p] \in {"idle", "memberAdded", "memberRemoved", "sync", "done",
                       "memberAdded.unlock", "memberRemoved.unlock"}

\* C15 (mutation order and store failure): a step that writes the store
\* starts with cache and store equal and touches neither the cache nor the
\* delivered messages; a step that writes the cache leaves the store alone and
\* makes the cache equal to the store again; a message is delivered only with
\* cache and store equal and the cold flag off; the step in which an Exec
\* fails ends the process with store, cache and delivered messages as they
\* were, cache and store being equal, and so they stay until the restart.
C15_MutationOrder ==
    /\ [][ (running /\ running' /\ members' # members)
             => /\ knownMemberState = members
                /\ knownMemberState' = knownMemberState
                /\ sent' = sent ]_vars
    /\ [][ (running /\ running' /\ knownMemberState' # knownMemberState)
             => /\ members' = members
                /\ knownMemberState' = members ]_vars
    /\ [][ (running /\ running' /\ Len(sent') > Len(sent))
             => /\ members' = members
                /\ knownMemberState' = knownMemberState
                /\ knownMemberState = members
                /\ ~knownMemberStateEmpty ]_vars
    /\ [][ (running /\ ~running' /\ exit' = "exec")
             => /\ members' = members
                /\ knownMemberState' = knownMemberState
                /\ sent' = sent ]_vars
    /\ []((~running /\ exit = "exec") => knownMemberState = members)

\* A periodic sync has removed one identity and announced it; the Exec of its
\* next removal failed.
C15_Witness ==
    /\ ~running /\ exit = "exec"
    /\ pc[Sync] = "rm"
    /\ sent # << >>
    /\ knownMemberState = members

\* The goroutine that holds the lock, if any.
Holder == CHOOSE p \in Procs : p \in knownMemberStateLock

\* C17 (notification content): a delivered message is short exactly when
\* username and discriminator of its record are both empty and otherwise
\* carries that name and tag; the record of a 'joined' is the one handed to
\* the add (for a sync, the roster's); the record of a 'left' is the one the
\* cache held when the removal began.
C17_Content ==
    /\ [][ (running /\ running' /\ Len(sent') > Len(sent))
             => LET m == sent'[Len(sent')]
                    u == frame[Holder].user
                IN /\ knownMemberStateLock # {}
                   /\ Len(sent') = Len(sent) + 1
                   /\ m.id = frame[Holder].id
                   /\ m.kind = IF pc[Holder] = "add.notify" THEN "joined" ELSE "left"
                   /\ m.long = ~(u.username = "" /\ u.discriminator = "")
                   /\ m.long => (m.name = u.username /\ m.tag = u.discriminator)
                   /\ ~m.long => (m.name = "" /\ m.tag = "")
                   /\ (m.kind = "joined" /\ Holder = Sync) => u = guild[m.id] ]_vars
    /\ [][ \A p \in Procs :
             (running /\ running' /\ pc[p] = "rm" /\ pc'[p] = "rm.delete")
             => frame'[p].user = knownMemberState[frame[p].id] ]_vars
    /\ [][ \A p \in Procs :
             (running /\ running' /\ pc[p] \in {"rm.delete", "rm.notify", "add.put", "add.notify"})
             => frame'[p] = frame[p] ]_vars

\* One sync has announced two departures, one with each template.
C17_Witness ==
    \E j, k \in 1..Len(sent) :
        /\ sent[j].kind = "left" /\ sent[j].long
        /\ sent[k].kind = "left" /\ ~sent[k].long

\* C18 (no live update path): a live Joined for a cached identity with other
\* fields returns with store, cache and delivered messages unchanged; the
\* record of an identity that stays in the cache (in the store) changes only
\* in the cache write (store write) of the sync's update.
C18_NoLiveUpdate ==
    /\ [][ \A h \in Handlers :
             ( /\ running /\ running'
               /\ pc[h] = "add" /\ pc'[h] # "add"
               /\ frame[h].id \in DOMAIN knownMemberState
               /\ Differs(knownMemberState[frame[h].id], frame[h].user) )
             => /\ pc'[h] = "memberAdded.unlock"
                /\ << members, knownMemberState, sent, owed >>' =
                   << members, knownMemberState, sent, owed >> ]_vars
    /\ [][ \A id \in Ids :
             ( /\ running /\ running'
               /\ id \in DOMAIN knownMemberState /\ id \in DOMAIN knownMemberState'
               /\ knownMemberState'[id] # knownMemberState[id] )
             => pc[Sync] = "upd.put" /\ frame[Sync].id = id ]_vars
    /\ [][ \A id \in Ids :
             ( /\ running /\ running'
               /\ id \in DOMAIN members /\ id \in DOMAIN members'
               /\ members'[id] # members[id] )
             => pc[Sync] = "upd" /\ frame[Sync].id = id ]_vars

\* After a completed sync a live Joined with other fields for a cached
\* identity has returned: store and cache still hold the old record.
C18_Witness ==
    \E h \in Handlers :
        /\ pc[h] = "memberAdded.unlock"
        /\ synced
        /\ frame[h].id \in DOMAIN knownMemberState
        /\ Differs(knownMemberState[frame[h].id], frame[h].user)
        /\ members[frame[h].id] = knownMemberState[frame[h].id]
        /\ sent = << >>

\* The sync stands in its missed-leave step or behind it.
PastPages == pc[Sync] \in {"remove", "rm", "rm.delete", "rm.notify", "done"}

\* The sync stands in its page loop.
InPages ==
    pc[Sync] \in {"fetch", "member", "next", "add", "add.put", "add.notify",
                  "upd", "upd.put"}

RosterSize == Cardinality(DOMAIN guild)

\* C19 (full sync termination): a sync never performs more than
\* size \div limit + 1 fetches; it goes back to fetch only behind a full page,
\* with the cursor on that page's last identity; it leaves the page loop at
\* the first page shorter than the limit, having performed exactly
\* size \div limit + 1 fetches, the last one empty when the size is a multiple
\* of the limit; and when it is done the missed-leave step has run and the
\* cold flag is off.
C19_Termination ==
    /\ fetches <= RosterSize \div limit + 1
    /\ (pc[Sync] = "fetch" /\ fetches > 0) =>
            /\ Len(page) = limit
            /\ after = page[Len(page)].id
            /\ fetches <= RosterSize \div limit
    /\ (InPages /\ pc[Sync] # "fetch") =>
            fetches = (Cardinality({ id \in DOMAIN guild : id <= after }) \div limit) + 1
    /\ PastPages =>
            /\ Len(page) < limit
            /\ fetches = RosterSize \div limit + 1
            /\ (RosterSize % limit = 0) => page = << >>
    /\ pc[Sync] = "done" =>
            /\ knownMemberStateClone = {}
            /\ DOMAIN knownMemberState = DOMAIN guild
            /\ ~knownMemberStateEmpty

\* A cold sync over a roster of exactly one full page is done: two fetches,
\* the second one empty.
C19_Witness ==
    /\ running
    /\ pc[Sync] = "done"
    /\ startedEmpty
    /\ RosterSize = limit
    /\ fetches = 2
    /\ page = << >>

\* C20 (an aborted sync removes nobody): while a sync is in its page loop,
\* and when a failed fetch has ended the process there, every identity cached
\* at the sync's start is still in the store, the store holds exactly those
\* and the identities of the members consumed, each consumed member's row is
\* the roster's, no 'left' was delivered and the cold flag is what it was at
\* the sync's start; store writes of the page loop are upserts of consumed
\* members and the failing fetch itself writes nothing.
C20_AbortedSync ==
    /\ []( (InPages /\ (running \/ exit = "fetch")) =>
            /\ snapshot \subseteq DOMAIN members
            /\ DOMAIN members \subseteq snapshot \cup Range(processed)
            /\ \A id \in Range(processed) :
                 (id \in DOMAIN members /\ id # frame[Sync].id) => members[id] = guild[id]
            /\ \A k \in 1..Len(sent) : sent[k].kind # "left"
            /\ knownMemberStateEmpty = (startedEmpty /\ ~synced) )
    /\ [][ (running /\ running' /\ InPages /\ members' # members)
             => /\ frame[Sync].id \in Range(processed)
                /\ members' = Put(members, frame[Sync].id, guild[frame[Sync].id]) ]_vars
    /\ [][ (running /\ ~running' /\ exit' = "fetch")
             => /\ pc[Sync] = "fetch"
                /\ << members, knownMemberState, knownMemberStateEmpty, sent >>' =
                   << members, knownMemberState, knownMemberStateEmpty, sent >> ]_vars

\* The fetch of a second page failed in a periodic sync that had added a
\* member and would have removed somebody.
C20_Witness ==
    /\ ~running /\ exit = "fetch"
    /\ after > 0
    /\ synced
    /\ snapshot \ DOMAIN guild # {}
    /\ \E id \in Range(processed) : id \notin snapshot /\ id \in DOMAIN members

\* How often the SQL of a migration has run.
Executions(name) == Cardinality({ k \in 1..Len(ran) : ran[k] = name })

\* C14 (migration ledger), as claimed: over any number of runs of migrate,
\* failed ones included, no migration runs twice, migrations run in the order
\* of their names, and whenever migrate is not between the two statements of
\* one migration the migrations that have run are exactly those recorded.
C14_Ledger ==
    /\ \A name \in MigrationNames : Executions(name) <= 1
    /\ \A j, k \in 1..Len(ran) : j < k => ran[j] < ran[k]
    /\ migratePc # "store" => Range(ran) = migrations

\* A handler stands in Lock() with its event.
Waiting(h) == pc[h] \in {"memberAdded", "memberRemoved"}

====
